---------------------------- MODULE Spec2Model ----------------------------
(***************************************************************************)
(* The image upload pipeline of app/app.py with its two gateways,          *)
(* app/db.py (metadata repository over a psycopg2 connection pool) and     *)
(* app/s3_utils.py (object store), as a state machine.  Every worker runs  *)
(* upload_image from the API-key decorator to the response; workers        *)
(* interleave at the calls that touch the shared table, pool and bucket.   *)
(***************************************************************************)
EXTENDS Integers, Sequences, FiniteSets, TLC

(***************************************************************************)
(* Bounds of the model.                                                    *)
(***************************************************************************)
\* Number of upload requests that arrive in one run.
MaxUploads == 2

\* Worker threads that serve requests at the same time.
Workers == {1, 2}

(***************************************************************************)
(* Program constants.                                                      *)
(***************************************************************************)
ALLOWED_EXTENSIONS == {"png", "jpg", "jpeg", "gif", "bmp", "webp"}

\* calculate_md5 reads the stream in chunks of this many bytes.
ChunkSize == 4096

\* SimpleConnectionPool(1, 20, ...): the pool hands out at most this many.
maxconn == 20

\* Config.API_KEY
API_KEY == "your-secret-api-key-here"

\* Config.MINIO_BUCKET_NAME
MINIO_BUCKET_NAME == "images"

\* _ensure_bucket_exists: the number of passes of its loop and the first delay.
max_retries == 5
retry_delay == 1

\* The processes that start against the same database and object store: the
\* server whose requests the workers serve, and a peer.
Processes == {"server", "peer"}

\* Python's None, and the value of a local that is not assigned yet.
None == "None"

(***************************************************************************)
(* Request inputs.  A request's parts are drawn when the handler first     *)
(* reads them.                                                             *)
(***************************************************************************)
\* X-API-Key header values: absent, empty, wrong, right.
ApiKeys == {None, "", "invalid-key", API_KEY}

\* What PIL decodes: the first byte is the format signature.
ImageSignature == 9

\* Byte streams: two images and one stream of non-image bytes.
Streams == {<<9, 1>>, <<9, 2, 2>>, <<7, 7>>}

\* File names, as (directory, stem, extension); "" is no extension.
FileName(dir, stem, ext) == [dir |-> dir, stem |-> stem, ext |-> ext]
NoName == FileName("", "", "")

\* The file part of the form: its file name and its Content-Type (None when
\* the part carries none).
FilePart(filename, content_type) ==
    [filename |-> filename, content_type |-> content_type]

\* The metadata form field: text that is not JSON, or the JSON value it
\* holds.  An object is given by its fields; a string by the words and an
\* array by the elements it has.
NotJson == [json |-> FALSE, kind |-> "text", has |-> {}, obj |-> <<>>]
JsonValue(kind, has) == [json |-> TRUE, kind |-> kind, has |-> has, obj |-> <<>>]
JsonObject(obj) == [json |-> TRUE, kind |-> "object", has |-> DOMAIN obj, obj |-> obj]

\* The metadata local before json.loads has been called.
NoMetadata == [json |-> FALSE, kind |-> "unread", has |-> {}, obj |-> <<>>]

\* The forms that are posted: a file part and a metadata field.
Form(file, metadata) == [file |-> file, metadata |-> metadata]
JpegPart == FilePart(FileName("../", "a", "jpg"), "image/jpeg")
PngPart == FilePart(FileName("", "b", "PNG"), None)
Forms ==
    { Form(FilePart(NoName, None), NotJson),
      Form(FilePart(FileName("", "a", ""), "image/jpeg"), NotJson),
      Form(FilePart(FileName("", "payload", "txt"), "text/plain"), NotJson),
      Form(JpegPart, NotJson),
      Form(JpegPart, JsonValue("number", {})),
      Form(JpegPart, JsonValue("null", {})),
      Form(JpegPart, JsonValue("string", {"title"})),
      Form(JpegPart, JsonObject([title |-> "T", description |-> "D"])),
      Form(JpegPart, JsonObject([title |-> "T"])),
      Form(PngPart, JsonValue("array", {"description"})),
      Form(PngPart, JsonValue("array", {"title", "description"})),
      Form(PngPart, JsonObject([title |-> "", description |-> "E"])),
      Form(PngPart, JsonObject(<<>>)) }

FileParts == {form.file : form \in Forms}
MetadataTexts(file) == {form.metadata : form \in {f \in Forms : f.file = file}}

\* What analyze_image_with_gemini meets: no key configured, a failure of the
\* import, of configure or of generate_content, an empty answer, a text.
GeminiOutcomes ==
    {"no key", "import failed", "configure failed", "call failed", "empty", "text"}

(***************************************************************************)
(* Pure functions of app/app.py.                                           *)
(***************************************************************************)
Lower(ext) ==
    CASE ext = "PNG" -> "png"
      [] ext = "JPG" -> "jpg"
      [] OTHER -> ext

\* allowed_file: '.' in filename and the lowered last extension is allowed.
allowed_file(filename) ==
    /\ filename.ext # ""
    /\ Lower(filename.ext) \in ALLOWED_EXTENSIONS

\* werkzeug's secure_filename: the path separators and dots in front go.
secure_filename(filename) == [filename EXCEPT !.dir = ""]

Min(a, b) == IF a < b THEN a ELSE b

\* file_obj.read(n) at position pos.
Read(stream, pos, n) == SubSeq(stream, pos + 1, Min(pos + n, Len(stream)))

\* Variant: the seek is left out.
SeekSkipped(pos) == pos

\* file_obj.seek(0) with the stream at pos.
SeekStart(pos) == 0

\* file_obj.seek(0, 2): the end of the stream.
SeekEnd(stream) == Len(stream)

\* Where the read of the whole stream leaves it.
ReadAll(stream, pos) == pos + Len(Read(stream, pos, Len(stream)))

RECURSIVE Md5Update(_, _, _)
\* The loop of calculate_md5: feed chunks to the digest until read gives b"".
Md5Update(stream, pos, fed) ==
    LET chunk == Read(stream, pos, ChunkSize)
    IN  IF chunk = <<>> THEN fed
        ELSE Md5Update(stream, pos + Len(chunk), fed \o chunk)

\* Variant: the digest is fed the first byte only.
calculate_md5_head(stream) == <<"md5">> \o Read(stream, 0, 1)

\* hexdigest: the digest stands for the bytes it was fed (no collisions).
calculate_md5(stream) == <<"md5">> \o Md5Update(stream, 0, <<>>)

\* Image.open + verify succeed on a stream that starts with a signature.
ImageVerifies(stream) == Len(stream) > 0 /\ stream[1] = ImageSignature

\* Python truthiness of a header value or a query result.
Truthy(v) == v # None /\ v # ""

\* Variant: any key that is given is taken.
KeyMatchesAny(api_key) == TRUE

\* require_api_key's comparison with the configured key.
KeyMatches(api_key) == api_key = API_KEY

\* "k in metadata" for the parsed JSON value; a number or null raises.
InRaises(metadata) == metadata.kind \in {"number", "null"}
In(k, metadata) == k \in metadata.has

\* metadata[k]: only an object can be indexed by a string.
IndexRaises(metadata) == metadata.kind # "object"

\* Variant: the key is made of the file name alone.
S3KeyOfName(md5_hash, original_filename) == <<"images/", <<>>, "_", original_filename>>

\* f"images/{md5_hash}_{original_filename}"
S3Key(md5_hash, original_filename) == <<"images/", md5_hash, "_", original_filename>>

\* datetime.isoformat()
IsoFormat(t) == <<"iso", t>>

(***************************************************************************)
(* State.                                                                  *)
(***************************************************************************)
VARIABLES
    images,     \* committed rows of table images
    pending,    \* per worker: the rows its open transaction has inserted
    conn,       \* per worker: whether it holds a pool connection
    bucket,     \* the bucket: s3 key -> stored object
    pc,         \* per worker: where its request stands
    req,        \* per worker: the handler's locals and its response
    response,   \* the request answered last: its locals and its response
    nUploads,   \* requests arrived so far
    mayFail,    \* whether the database and the object store may fail in this run
    concurrent, \* whether requests are served at the same time in this run
    start,      \* per process: where the import of app.db and app.s3_utils stands
    buckets,    \* the buckets the object store has
    others,     \* the pool connections of the server's other request threads
    simple      \* the process of simple_app.py: its dict and its requests

vars == <<images, pending, conn, bucket, pc, req, response, nUploads, mayFail,
          concurrent, start, buckets, others, simple>>

\* An exception as it is logged: its type and the call that raised it.
Exception(type, at) == [type |-> type, at |-> at]
NoException == Exception(None, None)

\* logger.error(f"{message}: {e}"): a line at level ERROR with the values its
\* f-string interpolates.
ErrorLine(message, values) == [message |-> message, values |-> values]

\* S3Manager.upload_file's except clauses: the line each leaves.
UploadFileLog(exc) ==
    IF exc.type = "NoCredentialsError"
    THEN <<ErrorLine("AWS credentials not found", <<>>)>>
    ELSE <<ErrorLine("Error uploading file to S3", [e |-> exc])>>

\* check_image_exists's except clause.
CheckImageLog(exc) == <<ErrorLine("Error checking image existence", [e |-> exc])>>

\* save_image_metadata's except clause: the line comes after conn.rollback(),
\* so an exception of the rollback leaves none.
SaveImageLog(exc) ==
    IF exc.at = "rollback" THEN <<>>
    ELSE <<ErrorLine("Error saving image metadata", [e |-> exc])>>

\* The lines at level ERROR a request that ends in exception exc leaves:
\* the line of the except clause that caught it first, in s3_utils.py or
\* db.py, then the line of upload_image's own except clause.  Each of them
\* interpolates the exception and nothing else.
ErrorLog(exc) ==
    ( IF exc.at = "upload_fileobj" THEN UploadFileLog(exc)
      ELSE IF exc.at \in {"check getconn", "select"} THEN CheckImageLog(exc)
      ELSE IF exc.at \in {"save getconn", "execute", "fetchone", "commit", "rollback"}
      THEN SaveImageLog(exc)
      ELSE <<>> )
    \o <<ErrorLine("Error in upload_image", [e |-> exc])>>

\* The locals of upload_image before the request is read.
NoRequest ==
    [ seq |-> 0,
      path |-> None,
      api_key |-> None,
      filename |-> NoName,
      content_type |-> None,
      stream |-> <<>>,
      pos |-> 0,
      metadata |-> NoMetadata,
      original_filename |-> NoName,
      mimetype |-> None,
      filesize |-> 0,
      md5_hash |-> <<>>,
      gemini_analysis |-> None,
      s3_key |-> <<>>,
      log |-> <<>>,
      status |-> 0,
      error |-> None,
      body |-> <<>>,
      title |-> None,
      description |-> None,
      exc |-> NoException,
      checks |-> 0,
      puts |-> 0,
      inserts |-> 0 ]

\* simple_app.py: the key it compares X-API-Key with.
SimpleApiKey == "test-api-key-123"

\* simple_app.py: the locals of upload_image before the request is read.
SimpleNoRequest ==
    [ md5_hash |-> <<>>, original_filename |-> NoName, mimetype |-> None,
      filesize |-> 0, metadata |-> NoMetadata, id |-> 0 ]

\* simple_app.py: no response yet.
SimpleNoResponse == [status |-> 0, error |-> None, body |-> <<>>]

\* simple_app.py after import: image_storage = {}, no request.  created
\* counts the 201 responses, returned holds the records they carried.
SimpleStarted ==
    [ image_storage |-> [h \in {} |-> None],
      pc |-> [w \in Workers |-> "idle"],
      req |-> [w \in Workers |-> SimpleNoRequest],
      response |-> SimpleNoResponse,
      nRequests |-> 0,
      created |-> 0,
      returned |-> {} ]

\* The service after start-up: empty table, empty bucket, no request.
Started ==
    /\ images = {}
    /\ pending = [w \in Workers |-> {}]
    /\ conn = [w \in Workers |-> FALSE]
    /\ bucket = [k \in {} |-> None]
    /\ pc = [w \in Workers |-> "idle"]
    /\ req = [w \in Workers |-> NoRequest]
    /\ response = NoRequest
    /\ nUploads = 0
    /\ mayFail \in BOOLEAN
    /\ simple = SimpleStarted

\* The locals of _ensure_bucket_exists in pass attempt of its loop, at pc,
\* with the history of the call: creates counts the create_bucket calls and
\* slept lists the arguments of time.sleep.
Starting(at, attempt, delay, error_code) ==
    [pc |-> at, attempt |-> attempt, retry_delay |-> delay, error_code |-> error_code,
     creates |-> 0, slept |-> <<>>]

\* A process whose import went through.
Ready == Starting("READY", 0, retry_delay, None)

\* The processes are up and the bucket is there.
Running ==
    /\ start = [p \in Processes |-> Ready]
    /\ buckets = {MINIO_BUCKET_NAME}

\* The request threads that are not followed step by step: used of them
\* hold a connection of the pool, passed of them are inside getconn, past
\* its test of the pool's size and before their connection is counted.
Others(used, passed) == [used |-> used, passed |-> passed]

\* No request but those of the workers.
Alone == others = Others(0, 0)

Init == Started /\ Running /\ Alone /\ concurrent = TRUE

InitSeq == Started /\ Running /\ Alone /\ concurrent = FALSE

\* The server under load: all connections of the pool but one are out.
InitPool ==
    /\ Started
    /\ Running
    /\ others = Others(maxconn - 1, 0)
    /\ concurrent = FALSE

\* The processes are launched; the bucket may be there already.
InitStart ==
    /\ Started
    /\ Alone
    /\ concurrent = FALSE
    /\ start = [p \in Processes |-> Starting("pool", 0, retry_delay, None)]
    /\ buckets \in {{}, {MINIO_BUCKET_NAME}}

(***************************************************************************)
(* Responses.                                                              *)
(***************************************************************************)
\* What is kept of an answered request: the header it came with, the
\* response, the logged exception, the fingerprint and key it worked on, the
\* calls it made and where it left the stream; the other locals are gone
\* with the handler's frame.
Sent(r) ==
    [NoRequest EXCEPT !.seq = r.seq, !.path = r.path,
                      !.api_key = r.api_key, !.pos = r.pos,
                      !.status = r.status, !.error = r.error,
                      !.body = r.body, !.exc = r.exc, !.metadata = r.metadata,
                      !.md5_hash = r.md5_hash, !.s3_key = r.s3_key,
                      !.checks = r.checks, !.puts = r.puts,
                      !.inserts = r.inserts, !.log = r.log]

\* return jsonify(...), status: the handler ends with locals r, the
\* response goes out and the worker is free for the next request.
Return(w, r, status, error, body) ==
    /\ pc' = [pc EXCEPT ![w] = "idle"]
    /\ req' = [req EXCEPT ![w] = NoRequest]
    /\ response' = Sent([r EXCEPT !.status = status, !.error = error, !.body = body])

\* The handler's except Exception: log the exception, answer 500.
InternalError(w, r, exc) ==
    /\ pc' = [pc EXCEPT ![w] = "idle"]
    /\ req' = [req EXCEPT ![w] = NoRequest]
    /\ response' = Sent([r EXCEPT !.status = 500,
                                  !.error = "Internal server error",
                                  !.exc = exc,
                                  !.log = ErrorLog(exc)])

\* The handler goes on to its next step with locals r.
Goto(w, label, r) ==
    /\ pc' = [pc EXCEPT ![w] = label]
    /\ req' = [req EXCEPT ![w] = r]
    /\ response' = response

\* Variant: the health route asks for an API key.
HealthResponseKeyed(api_key) ==
    IF Truthy(api_key)
    THEN [NoRequest EXCEPT !.path = "/health", !.api_key = api_key, !.status = 200,
                           !.body = [status |-> "healthy",
                                     service |-> "image-metadata-api"]]
    ELSE [NoRequest EXCEPT !.path = "/health", !.api_key = api_key, !.status = 401,
                           !.error = "API key is required"]

\* health_check: the route has no require_api_key, reads nothing and
\* answers 200 with a constant body.
HealthResponse(api_key) ==
    [NoRequest EXCEPT !.path = "/health", !.api_key = api_key, !.status = 200,
                      !.body = [status |-> "healthy",
                                service |-> "image-metadata-api"]]

(***************************************************************************)
(* Backends.                                                               *)
(***************************************************************************)
\* Connections checked out of the pool.
CheckedOut == Cardinality({w \in Workers : conn[w]}) + others.used

\* The pool after getconn() gave worker w a connection.
Acquired(w) == [conn EXCEPT ![w] = TRUE]

\* Variant: the finally clause gives nothing back.
put_connection_skipped(pool, w) == pool

\* finally: if conn: put_connection(conn).
put_connection(pool, w) == [pool EXCEPT ![w] = FALSE]

\* What the except clause of save_image_metadata raises: the exception it
\* caught, or the one conn.rollback() raised in its place.
Reraised(exc, rollback) ==
    IF rollback = "ok" THEN exc ELSE [type |-> rollback, at |-> "rollback"]

\* A call to a backend returns ("ok") or raises one of errors.
CallOutcomes(errors) == {"ok"} \cup (IF mayFail THEN errors ELSE {})

\* connection_pool.getconn(): a connection, or PoolError when all are out,
\* or the error of opening one.
GetConnOutcomes ==
    IF CheckedOut = maxconn THEN {"PoolError"}
    ELSE CallOutcomes({"OperationalError"})

\* Variant: a table without the constraint.
NoUniqueViolation(row) == FALSE

\* The table's uniqueness constraint on md5_hash: a committed row with the
\* same fingerprint makes the INSERT raise.
UniqueViolation(row) == \E r \in images : r.md5_hash = row.md5_hash

\* An INSERT waits while another open transaction holds an uncommitted row
\* with the same fingerprint.
InsertBlocked(w, row) ==
    \E v \in Workers \ {w} :
        \E other \in pending[v] : other.md5_hash = row.md5_hash

\* upload_fileobj writes what the stream holds from its read position on.
PutObject(r) ==
    [k \in DOMAIN bucket \cup {r.s3_key} |->
        IF k = r.s3_key
        THEN [ body |-> Read(r.stream, r.pos, Len(r.stream)),
               content_type |-> r.mimetype,
               uploaded_by |-> "image_api" ]
        ELSE bucket[k]]

\* generate_presigned_url('get_object', ..., ExpiresIn=3600)
PresignedUrl(s3_key) == <<"get_object", s3_key, 3600>>

\* The row save_image_metadata inserts for the request with locals r.
NewRow(r) ==
    [ id |-> r.seq,
      s3_key |-> r.s3_key,
      md5_hash |-> r.md5_hash,
      original_filename |-> r.original_filename,
      mimetype |-> r.mimetype,
      filesize |-> r.filesize,
      uploaded_at |-> nUploads,
      title |-> r.title,
      description |-> r.description,
      gemini_analysis |-> r.gemini_analysis ]

\* The dict save_image_metadata returns.
SavedMetadata(row) == [row EXCEPT !.uploaded_at = IsoFormat(row.uploaded_at)]

\* Variant: the query selects id and s3_key only.
ExistingImageBare(row) ==
    [ id |-> row.id, s3_key |-> row.s3_key, title |-> None, description |-> None ]

\* The dict check_image_exists returns for a row.
ExistingImage(row) ==
    [ id |-> row.id, s3_key |-> row.s3_key,
      title |-> row.title, description |-> row.description ]

(***************************************************************************)
(* Scheduling.                                                             *)
(***************************************************************************)
\* Variant: the object is written before the existence check.
OrderUploadBeforeCheck ==
    << "request", "image", "metadata", "info", "gemini", "upload", "check",
       "save", "commit", "url" >>

\* Variant: the record is inserted before the object is written.
OrderSaveBeforeUpload ==
    << "request", "image", "metadata", "info", "check", "gemini", "save",
       "commit", "upload", "url" >>

\* Variant: the metadata is parsed after the fingerprint is taken.
OrderHashBeforeMetadata ==
    << "request", "image", "info", "metadata", "check", "gemini", "upload",
       "save", "commit", "url" >>

\* Variant: the metadata is parsed after the object is written.
OrderUploadBeforeMetadata ==
    << "request", "image", "info", "check", "gemini", "upload", "metadata",
       "save", "commit", "url" >>

\* The steps of upload_image in the order of its statements.
Order ==
    << "request", "image", "metadata", "info", "check", "gemini", "upload",
       "save", "commit", "url" >>

\* The step that follows step label.
After(label) ==
    Order[(CHOOSE i \in 1..Len(Order) : Order[i] = label) + 1]

\* The steps that touch neither the table, the pool nor the bucket.
LocalSteps == {"request", "image", "metadata", "info", "gemini", "url"}

\* Worker w may take its next step.  In a sequential run a request arrives
\* when no other is being served.  In a concurrent run the workers
\* interleave; a step that touches nothing shared commutes with every step
\* of another worker on the table, the pool and the bucket, so a worker
\* that stands before one takes it first.  The steps of a process's start
\* touch nothing a request reads but the server's own start, so they too
\* are taken first.
Scheduled(w) ==
    /\ \A p \in Processes : start[p].pc \in {"READY", "FAILED"}
    /\ \A v \in Workers \ {w} :
        IF concurrent THEN pc[v] \notin LocalSteps ELSE pc[v] = "idle"

(***************************************************************************)
(* Process start: app.py imports app.db, which builds the connection pool, *)
(* and app.s3_utils, which builds the client and provisions the bucket.    *)
(***************************************************************************)
\* The rest of the state, which the start of a process leaves alone.
Service == <<images, pending, conn, bucket, pc, req, response, nUploads, mayFail,
             concurrent, others, simple>>

\* Process p goes on with its start, at pc with the locals given.
StartGoto(p, at, attempt, delay, error_code) ==
    start' = [start EXCEPT ![p] = [@ EXCEPT !.pc = at, !.attempt = attempt,
                                            !.retry_delay = delay,
                                            !.error_code = error_code]]

\* _ensure_bucket_exists returns: the import goes through.
StartReady(p) == start' = [start EXCEPT ![p] = Ready]

\* An exception leaves the module with the locals as they are: the import of
\* app.py fails with error_code.
StartFailed(p, error_code) ==
    start' = [start EXCEPT ![p] = [@ EXCEPT !.pc = "FAILED",
                                            !.error_code = error_code]]

\* Variant: the exception is swallowed and the module is imported.
ServingWhateverStart == start["server"].pc \in {"READY", "FAILED"}

\* upload_image is routed once app.py has imported db_manager and s3_manager.
Serving == start["server"].pc = "READY"

\* The error codes of the two answers create_bucket gives for a bucket that
\* is there.
AlreadyExists(error_code) ==
    error_code \in {"BucketAlreadyExists", "BucketAlreadyOwnedByYou"}

\* DatabaseManager._init_connection_pool: the pool, or the error raised again.
InitConnectionPool(p) ==
    /\ start[p].pc = "pool"
    /\ \E o \in CallOutcomes({"OperationalError"}) :
        IF o = "ok" THEN StartGoto(p, "head", 0, retry_delay, None)
        ELSE StartFailed(p, o)
    /\ UNCHANGED <<Service, buckets>>

\* Variant: create_bucket is tried after every error of head_bucket.
HeadBucketCreatesOnError(p) ==
    /\ start[p].pc = "head"
    /\ \E o \in CallOutcomes({"403", "EndpointConnectionError"}) :
        IF o = "ok" /\ MINIO_BUCKET_NAME \in buckets THEN StartReady(p)
        ELSE StartGoto(p, "create", start[p].attempt, start[p].retry_delay,
                       IF o = "ok" THEN "404" ELSE o)
    /\ UNCHANGED <<Service, buckets>>

\* Lines 38-47 and 69-71: head_bucket at the top of a pass of the loop.  The
\* bucket is there: return.  404: go on to create it.  Another code, or an
\* error that is no ClientError: raised.
HeadBucket(p) ==
    /\ start[p].pc = "head"
    /\ \E o \in CallOutcomes({"403", "EndpointConnectionError"}) :
        IF o # "ok" THEN StartFailed(p, o)
        ELSE IF MINIO_BUCKET_NAME \in buckets THEN StartReady(p)
        ELSE StartGoto(p, "create", start[p].attempt, start[p].retry_delay, "404")
    /\ UNCHANGED <<Service, buckets>>

\* Lines 49-55: create_bucket.  A bucket that is there is answered with an
\* "already exists" code; an error that is no ClientError is raised.
CreateBucket(p) ==
    /\ start[p].pc = "create"
    /\ \E o \in CallOutcomes({"ServiceUnavailable", "EndpointConnectionError"}) :
        LET s == [start[p] EXCEPT !.creates = @ + 1]
            Called(at, error_code) ==
                start' = [start EXCEPT ![p] = [s EXCEPT !.pc = at,
                                                        !.error_code = error_code]]
        IN  IF o = "EndpointConnectionError"
            THEN buckets' = buckets /\ Called("FAILED", o)
            ELSE IF o # "ok"
            THEN buckets' = buckets /\ Called("except", o)
            ELSE IF MINIO_BUCKET_NAME \in buckets
            THEN buckets' = buckets /\ Called("except", "BucketAlreadyOwnedByYou")
            ELSE /\ buckets' = buckets \cup {MINIO_BUCKET_NAME}
                 /\ StartReady(p)
    /\ UNCHANGED Service

\* Variant: the delay grows by one second a pass.
BackoffLinear(delay) == delay + 1

\* Line 65: the delay doubles.
Backoff(delay) == delay * 2

\* Variant: every create error is raised.
CreateErrorRaised(p) ==
    /\ start[p].pc = "except"
    /\ StartFailed(p, start[p].error_code)
    /\ UNCHANGED <<Service, buckets>>

\* Variant: the last pass has no raise, and the loop ends.
CreateErrorFallsThrough(p) ==
    /\ start[p].pc = "except"
    /\ LET s == start[p]
       IN  IF AlreadyExists(s.error_code) \/ s.attempt >= max_retries - 1
           THEN StartReady(p)
           ELSE start' = [start EXCEPT ![p] =
                            [s EXCEPT !.pc = "head", !.attempt = s.attempt + 1,
                                      !.slept = Append(s.slept, s.retry_delay),
                                      !.retry_delay = Backoff(s.retry_delay),
                                      !.error_code = None]]
    /\ UNCHANGED <<Service, buckets>>

\* Lines 54-68: the except clause of create_bucket.  "Already exists" is a
\* return; another code is slept on and the loop goes to its next pass, or
\* raised in the last pass.
CreateError(p) ==
    /\ start[p].pc = "except"
    /\ LET s == start[p]
       IN  IF AlreadyExists(s.error_code) THEN StartReady(p)
           ELSE IF s.attempt < max_retries - 1
           THEN start' = [start EXCEPT ![p] =
                            [s EXCEPT !.pc = "head", !.attempt = s.attempt + 1,
                                      !.slept = Append(s.slept, s.retry_delay),
                                      !.retry_delay = Backoff(s.retry_delay),
                                      !.error_code = None]]
           ELSE StartFailed(p, s.error_code)
    /\ UNCHANGED <<Service, buckets>>

Provision(p) ==
    \/ InitConnectionPool(p)
    \/ HeadBucket(p)
    \/ CreateBucket(p)
    \/ CreateError(p)

(***************************************************************************)
(* upload_image, step by step.                                             *)
(***************************************************************************)
\* auth.require_api_key: a request arrives at a free worker.
RequireApiKey(w) ==
    /\ pc[w] = "idle"
    /\ Serving
    /\ Scheduled(w)
    /\ \A v \in Workers : v < w => pc[v] # "idle"
    /\ nUploads < MaxUploads
    /\ nUploads' = nUploads + 1
    /\ \E api_key \in ApiKeys :
        LET r == [NoRequest EXCEPT !.seq = nUploads + 1, !.path = "/api/upload",
                                   !.api_key = api_key]
        IN  IF ~Truthy(api_key)
            THEN Return(w, r, 401, "API key is required", <<>>)
            ELSE IF ~KeyMatches(api_key)
            THEN Return(w, r, 401, "Invalid API key", <<>>)
            ELSE Goto(w, Order[1], r)
    /\ UNCHANGED <<images, pending, conn, bucket, mayFail, concurrent, start, buckets, others, simple>>

\* Lines 92-116: the file and the metadata are there, the name is allowed.
ValidateRequest(w) ==
    /\ pc[w] = "request"
    /\ Scheduled(w)
    /\ \E hasFile \in BOOLEAN, hasMetadata \in BOOLEAN, file \in FileParts :
        LET r == req[w]
            filename == file.filename
            got == [r EXCEPT !.filename = filename,
                             !.content_type = file.content_type]
        IN  IF ~hasFile
            THEN Return(w, r, 400, "No image file provided", <<>>)
            ELSE IF ~hasMetadata
            THEN Return(w, r, 400, "No metadata provided", <<>>)
            ELSE IF filename = NoName
            THEN Return(w, r, 400, "No file selected", <<>>)
            ELSE IF ~allowed_file(filename)
            THEN Return(w, got, 400, "Invalid file type", <<>>)
            ELSE Goto(w, After("request"), got)
    /\ UNCHANGED <<images, pending, conn, bucket, nUploads, mayFail, concurrent, start, buckets, others, simple>>

\* validate_image: seek(0), open and verify, seek(0); a failure returns
\* False from wherever the decoder stopped reading.
ValidateImage(w) ==
    /\ pc[w] = "image"
    /\ Scheduled(w)
    /\ \E stream \in Streams :
        LET r == [req[w] EXCEPT !.stream = stream]
        IN  IF ImageVerifies(stream)
            THEN Goto(w, After("image"), [r EXCEPT !.pos = 0])
            ELSE \E p \in 0..Len(stream) :
                    Return(w, [r EXCEPT !.pos = p],
                           400, "Invalid image file", <<>>)
    /\ UNCHANGED <<images, pending, conn, bucket, nUploads, mayFail, concurrent, start, buckets, others, simple>>

\* Lines 125-139: json.loads, then the required-field check.
ParseMetadata(w) ==
    /\ pc[w] = "metadata"
    /\ Scheduled(w)
    /\ \E text \in MetadataTexts(FilePart(req[w].filename, req[w].content_type)) :
        LET r == req[w]
        IN  IF ~text.json
            THEN Return(w, [r EXCEPT !.metadata = text],
                        400, "Invalid metadata format", <<>>)
            ELSE IF InRaises(text)
            THEN InternalError(w, [r EXCEPT !.metadata = text],
                               Exception("TypeError", "in"))
            ELSE IF ~In("title", text) \/ ~In("description", text)
            THEN Return(w, [r EXCEPT !.metadata = text],
                        400, "Missing required metadata", <<>>)
            ELSE Goto(w, After("metadata"), [r EXCEPT !.metadata = text])
    /\ UNCHANGED <<images, pending, conn, bucket, nUploads, mayFail, concurrent, start, buckets, others, simple>>

\* Lines 141-149: name, type, size, fingerprint.
FileInfo(w) ==
    /\ pc[w] = "info"
    /\ Scheduled(w)
    /\ LET r == req[w]
       IN  Goto(w, After("info"),
                [r EXCEPT !.original_filename = secure_filename(r.filename),
                          !.mimetype = IF Truthy(r.content_type) THEN r.content_type
                                       ELSE "application/octet-stream",
                          !.filesize = SeekEnd(r.stream),
                          !.md5_hash = calculate_md5(r.stream),
                          !.pos = SeekStart(ReadAll(r.stream,
                                      SeekStart(SeekStart(SeekEnd(r.stream)))))])
    /\ UNCHANGED <<images, pending, conn, bucket, nUploads, mayFail, concurrent, start, buckets, others, simple>>

\* check_image_exists: take a connection, SELECT by md5_hash, fetchone, and
\* in finally give the connection back; then lines 153-158 of upload_image.
CheckImageExists(w) ==
    /\ pc[w] = "check"
    /\ Scheduled(w)
    /\ \E c \in GetConnOutcomes :
        LET r == [req[w] EXCEPT !.checks = @ + 1]
            rows == {row \in images : row.md5_hash = r.md5_hash}
        IN  IF c # "ok"
            THEN /\ conn' = conn
                 /\ InternalError(w, r, Exception(c, "check getconn"))
            ELSE /\ conn' = put_connection(Acquired(w), w)
                 /\ \E o \in CallOutcomes({"OperationalError"}) :
                        IF o # "ok" THEN InternalError(w, r, Exception(o, "select"))
                        ELSE IF rows = {} THEN Goto(w, After("check"), r)
                        ELSE \E row \in rows :
                                Return(w, r, 409, "Image already exists",
                                       ExistingImage(row))
    /\ UNCHANGED <<images, pending, bucket, nUploads, mayFail, concurrent, start, buckets, others, simple>>

\* Where analyze_image_with_gemini leaves the stream: untouched when it
\* returns or fails before line 65; else seek(0), read(), seek(0), which
\* come before generate_content.
GeminiPosition(r, o) ==
    IF o \in {"no key", "import failed", "configure failed"} THEN r.pos
    ELSE SeekStart(ReadAll(r.stream, SeekStart(r.pos)))

\* Variant: a failure of the annotator ends the request.
AnnotatedOrRaised(w, r, o) ==
    IF o = "call failed"
    THEN InternalError(w, r, Exception("Exception", "generate_content"))
    ELSE Goto(w, After("gemini"),
              [r EXCEPT !.gemini_analysis = IF o = "text" THEN "caption" ELSE None,
                        !.pos = GeminiPosition(r, o)])

\* What analyze_image_with_gemini returns to line 161: the text, or None
\* without a key, after a swallowed failure and for an empty answer.
Annotated(w, r, o) ==
    Goto(w, After("gemini"),
         [r EXCEPT !.gemini_analysis = IF o = "text" THEN "caption" ELSE None,
                   !.pos = GeminiPosition(r, o)])

\* analyze_image_with_gemini: a text, or None with the failure swallowed.
AnalyzeImage(w) ==
    /\ pc[w] = "gemini"
    /\ Scheduled(w)
    /\ \E o \in GeminiOutcomes : Annotated(w, req[w], o)
    /\ UNCHANGED <<images, pending, conn, bucket, nUploads, mayFail, concurrent, start, buckets, others, simple>>

\* Variant: the handler tries the object write again.
UploadFileRetried(w, r, o) ==
    /\ bucket' = bucket
    /\ Goto(w, "upload", r)

\* Variant: upload_file logs the error and returns; the handler goes on.
UploadFileSwallowed(w, r, o) ==
    /\ bucket' = bucket
    /\ Goto(w, After("upload"), [r EXCEPT !.exc = Exception(o, "upload_fileobj")])

\* S3Manager.upload_file's except clauses log the error and raise it again;
\* upload_image's except Exception answers 500.
UploadFileFailed(w, r, o) ==
    /\ bucket' = bucket
    /\ InternalError(w, r, Exception(o, "upload_fileobj"))

\* Lines 164-165 and S3Manager.upload_file: put the object, or log and raise.
UploadFile(w) ==
    /\ pc[w] = "upload"
    /\ Scheduled(w)
    /\ \E o \in CallOutcomes({"NoCredentialsError", "ClientError"}) :
        LET r == [req[w] EXCEPT !.s3_key = S3Key(req[w].md5_hash,
                                                 req[w].original_filename),
                                !.puts = @ + 1]
        IN  IF o = "ok"
            THEN /\ bucket' = PutObject(r)
                 /\ Goto(w, After("upload"), [r EXCEPT !.pos = Len(r.stream)])
            ELSE UploadFileFailed(w, r, o)
    /\ UNCHANGED <<images, pending, conn, nUploads, mayFail, concurrent, start, buckets, others, simple>>

\* Lines 168-177 and save_image_metadata, lines 73-90: the arguments are
\* evaluated (metadata['title']), a connection is taken and the INSERT runs
\* in its transaction; an error rolls back, gives the connection back in
\* finally and is raised again.
SaveExecute(w) ==
    /\ pc[w] = "save"
    /\ Scheduled(w)
    /\ LET r == IF IndexRaises(req[w].metadata) THEN req[w]
                ELSE [req[w] EXCEPT !.title = req[w].metadata.obj.title,
                                    !.description = req[w].metadata.obj.description]
           tried == [r EXCEPT !.inserts = @ + 1]
           row == NewRow(r)
           released == pending' = pending /\ conn' = put_connection(Acquired(w), w)
       IN  IF IndexRaises(r.metadata)
           THEN /\ pending' = pending /\ conn' = conn
                /\ InternalError(w, req[w], Exception("TypeError", "metadata[]"))
           ELSE \E c \in GetConnOutcomes :
                IF c # "ok"
                THEN /\ pending' = pending /\ conn' = conn
                     /\ InternalError(w, r, Exception(c, "save getconn"))
                ELSE /\ ~InsertBlocked(w, row)
                     /\ \E o \in CallOutcomes({"OperationalError"}) :
                        IF UniqueViolation(row) \/ o # "ok"
                        THEN /\ released
                             /\ \E rollback \in CallOutcomes({"InterfaceError"}) :
                                    InternalError(w, tried,
                                        Reraised(
                                            Exception(IF UniqueViolation(row)
                                                      THEN "UniqueViolation" ELSE o,
                                                      "execute"),
                                            rollback))
                        ELSE /\ pending' = [pending EXCEPT ![w] = {row}]
                             /\ conn' = Acquired(w)
                             /\ Goto(w, After("save"), tried)
    /\ UNCHANGED <<images, bucket, nUploads, mayFail, concurrent, start, buckets, others, simple>>

\* Variant: the failed transaction's rows stay.
NotRolledBack(w) == images \cup pending[w]

\* The table after conn.rollback(): the transaction's rows are gone.
RolledBack(w) == images

\* Variant: the insert replaces the rows of the same file name.
CommittedReplacing(w) ==
    {row \in images : \A new \in pending[w] :
        row.original_filename # new.original_filename} \cup pending[w]

\* The table after conn.commit(): the transaction's rows are there.
Committed(w) == images \cup pending[w]

\* save_image_metadata, lines 92-116: fetchone, commit, return the dict;
\* an error rolls back; finally the connection goes back.
SaveCommit(w) ==
    /\ pc[w] = "commit"
    /\ Scheduled(w)
    /\ pending' = [pending EXCEPT ![w] = {}]
    /\ conn' = put_connection(conn, w)
    /\ \E o \in CallOutcomes({"OperationalError"}) :
        IF o = "ok"
        THEN /\ images' = Committed(w)
             /\ Goto(w, After("commit"),
                     [req[w] EXCEPT !.body =
                         SavedMetadata(CHOOSE row \in pending[w] : TRUE)])
        ELSE /\ images' = RolledBack(w)
             /\ \E at \in {"fetchone", "commit"},
                   rollback \in CallOutcomes({"InterfaceError"}) :
                    InternalError(w, req[w], Reraised(Exception(o, at), rollback))
    /\ UNCHANGED <<bucket, nUploads, mayFail, concurrent, start, buckets, others, simple>>

\* Variant: a failure of get_file_url ends the request.
GetFileUrlRaised(w, r, o) ==
    InternalError(w, r, Exception(o, "generate_presigned_url"))

\* get_file_url logs the error and raises it again; lines 182-184 of
\* upload_image log a warning and go on without the URL.
GetFileUrlFailed(w, r, o) ==
    Return(w, [r EXCEPT !.exc = Exception(o, "generate_presigned_url")],
           201, None, [data |-> r.body, download_url |-> None])

\* Lines 179-191: the download URL when it can be had, then 201.
GetFileUrl(w) ==
    /\ pc[w] = "url"
    /\ Scheduled(w)
    /\ \E o \in CallOutcomes({"ClientError"}) :
        LET r == req[w]
        IN  IF o = "ok"
            THEN Return(w, r, 201, None,
                        [data |-> r.body, download_url |-> PresignedUrl(r.s3_key)])
            ELSE GetFileUrlFailed(w, r, o)
    /\ UNCHANGED <<images, pending, conn, bucket, nUploads, mayFail, concurrent, start, buckets, others, simple>>

\* GET /health, at any moment of a running server, with any X-API-Key
\* header or none.
health_check ==
    /\ Serving
    /\ \E api_key \in ApiKeys : response' = HealthResponse(api_key)
    /\ UNCHANGED <<images, pending, conn, bucket, pc, req, nUploads, mayFail,
                   concurrent, start, buckets, others, simple>>

\* getconn() of another request thread, up to its test of the pool's size:
\* SimpleConnectionPool takes no lock, so the threads of the server are in
\* getconn at the same time.
OtherGetConnTest ==
    /\ Serving
    /\ others.passed = 0
    /\ CheckedOut < maxconn
    /\ others' = Others(others.used, others.passed + 1)
    /\ UNCHANGED <<images, pending, conn, bucket, pc, req, response, nUploads,
                   mayFail, concurrent, start, buckets, simple>>

\* getconn() of another request thread, after its test: the connection is
\* opened and counted as used.
OtherGetConnUse ==
    /\ others.passed > 0
    /\ others' = Others(others.used + 1, others.passed - 1)
    /\ UNCHANGED <<images, pending, conn, bucket, pc, req, response, nUploads,
                   mayFail, concurrent, start, buckets, simple>>

\* put_connection of another request thread; the load keeps all but two
\* connections of the pool out.
OtherPutConnection ==
    /\ others.used > maxconn - 2
    /\ others' = Others(others.used - 1, others.passed)
    /\ UNCHANGED <<images, pending, conn, bucket, pc, req, response, nUploads,
                   mayFail, concurrent, start, buckets, simple>>

Step(w) ==
    \/ RequireApiKey(w)
    \/ ValidateRequest(w)
    \/ ValidateImage(w)
    \/ ParseMetadata(w)
    \/ FileInfo(w)
    \/ CheckImageExists(w)
    \/ AnalyzeImage(w)
    \/ UploadFile(w)
    \/ SaveExecute(w)
    \/ SaveCommit(w)
    \/ GetFileUrl(w)

Next == \E w \in Workers : Step(w)

\* Requests are served by the workers concurrently.
Spec == Init /\ [][Next]_vars

\* Requests are served one after the other.
SpecSeq == InitSeq /\ [][Next]_vars

NextHealth == health_check \/ Next

\* Uploads one after the other, with health checks at any moment.
SpecHealth == InitSeq /\ [][NextHealth]_vars

(***************************************************************************)
(* simple_app.py: the development variant, which keeps its records in the  *)
(* dict image_storage of the process.  Its request threads switch between  *)
(* any two of the steps below.                                             *)
(***************************************************************************)
\* The variables of app/app.py, which simple_app.py does not touch.
Production == <<images, pending, conn, bucket, pc, req, response, nUploads, mayFail,
                concurrent, start, buckets, others>>

\* The handler of worker w goes on to its step at with locals r.
SimpleGoto(sm, w, at, r) == [sm EXCEPT !.pc[w] = at, !.req[w] = r]

\* return jsonify(...), status.
SimpleReturn(sm, w, status, error, body) ==
    [sm EXCEPT !.pc[w] = "idle", !.req[w] = SimpleNoRequest,
               !.response = [status |-> status, error |-> error, body |-> body]]

\* f"img_{len(image_storage) + 1}"
SimpleImageId(image_storage) == <<"img_", Cardinality(DOMAIN image_storage) + 1>>

\* Lines 172-181: the dict that is stored and returned.
SimpleSavedMetadata(r) ==
    [ id |-> r.id,
      md5_hash |-> r.md5_hash,
      original_filename |-> r.original_filename,
      mimetype |-> r.mimetype,
      filesize |-> r.filesize,
      title |-> r.metadata.obj.title,
      description |-> r.metadata.obj.description,
      storage_type |-> "memory" ]

\* image_storage[md5_hash] = saved_metadata
SimpleStored(image_storage, md5_hash, saved_metadata) ==
    [h \in DOMAIN image_storage \cup {md5_hash} |->
        IF h = md5_hash THEN saved_metadata ELSE image_storage[h]]

\* simple_app.py lines 34-155: require_api_key, the checks of the form, of
\* the image and of the metadata, the file information and the fingerprint.
\* None of it reads image_storage.
SimpleValidate(w) ==
    /\ simple.pc[w] = "idle"
    /\ \A v \in Workers : v < w => simple.pc[v] # "idle"
    /\ simple.nRequests < MaxUploads
    /\ \E api_key \in {None, "invalid-key", SimpleApiKey},
          hasFile \in BOOLEAN, hasMetadata \in BOOLEAN,
          form \in Forms, stream \in Streams :
        LET sm == [simple EXCEPT !.nRequests = @ + 1]
            filename == form.file.filename
            metadata == form.metadata
            r == [ md5_hash |-> calculate_md5(stream),
                   original_filename |-> secure_filename(filename),
                   mimetype |-> IF Truthy(form.file.content_type)
                                THEN form.file.content_type
                                ELSE "application/octet-stream",
                   filesize |-> SeekEnd(stream),
                   metadata |-> metadata,
                   id |-> 0 ]
        IN  simple' =
            IF ~Truthy(api_key)
            THEN SimpleReturn(sm, w, 401, "API key is required", <<>>)
            ELSE IF api_key # SimpleApiKey
            THEN SimpleReturn(sm, w, 401, "Invalid API key", <<>>)
            ELSE IF ~hasFile
            THEN SimpleReturn(sm, w, 400, "No image file provided", <<>>)
            ELSE IF ~hasMetadata
            THEN SimpleReturn(sm, w, 400, "No metadata provided", <<>>)
            ELSE IF filename = NoName
            THEN SimpleReturn(sm, w, 400, "No file selected", <<>>)
            ELSE IF ~allowed_file(filename)
            THEN SimpleReturn(sm, w, 400, "Invalid file type", <<>>)
            ELSE IF ~ImageVerifies(stream)
            THEN SimpleReturn(sm, w, 400, "Invalid image file", <<>>)
            ELSE IF ~metadata.json
            THEN SimpleReturn(sm, w, 400, "Invalid metadata format", <<>>)
            ELSE IF InRaises(metadata)
            THEN SimpleReturn(sm, w, 500, "Internal server error", <<>>)
            ELSE IF ~In("title", metadata) \/ ~In("description", metadata)
            THEN SimpleReturn(sm, w, 400, "Missing required metadata", <<>>)
            ELSE SimpleGoto(sm, w, "check", r)
    /\ UNCHANGED Production

\* Lines 158-168: the fingerprint is looked up in image_storage.
SimpleCheck(w) ==
    /\ simple.pc[w] = "check"
    /\ LET r == simple.req[w]
       IN  simple' =
           IF r.md5_hash \in DOMAIN simple.image_storage
           THEN LET existing_image == simple.image_storage[r.md5_hash]
                IN  SimpleReturn(simple, w, 409, "Image already exists",
                                 [ id |-> existing_image.id,
                                   title |-> existing_image.title,
                                   description |-> existing_image.description ])
           ELSE SimpleGoto(simple, w, "id", r)
    /\ UNCHANGED Production

\* Lines 171-181: the id is taken from the size of image_storage and the
\* dict is built; metadata that is no object cannot be indexed.
SimpleNewId(w) ==
    /\ simple.pc[w] = "id"
    /\ LET r == simple.req[w]
       IN  simple' =
           IF IndexRaises(r.metadata)
           THEN SimpleReturn(simple, w, 500, "Internal server error", <<>>)
           ELSE SimpleGoto(simple, w, "store",
                           [r EXCEPT !.id = SimpleImageId(simple.image_storage)])
    /\ UNCHANGED Production

\* Lines 183-190: the dict is stored under the fingerprint and returned.
SimpleStore(w) ==
    /\ simple.pc[w] = "store"
    /\ LET saved_metadata == SimpleSavedMetadata(simple.req[w])
       IN  simple' =
            [SimpleReturn(simple, w, 201, None, saved_metadata) EXCEPT
                !.image_storage = SimpleStored(@, saved_metadata.md5_hash,
                                               saved_metadata),
                !.created = @ + 1,
                !.returned = @ \cup {saved_metadata}]
    /\ UNCHANGED Production

\* list_images, lines 199-207, behind require_api_key.
list_images ==
    /\ \E api_key \in {"invalid-key", SimpleApiKey} :
        simple' =
            IF api_key # SimpleApiKey
            THEN [simple EXCEPT !.response =
                    [status |-> 401, error |-> "Invalid API key", body |-> <<>>]]
            ELSE [simple EXCEPT !.response =
                    [ status |-> 200, error |-> None,
                      body |-> [ count |-> Cardinality(DOMAIN simple.image_storage),
                                 data |-> {simple.image_storage[h] :
                                            h \in DOMAIN simple.image_storage} ] ]]
    /\ UNCHANGED Production

SimpleStep(w) ==
    \/ SimpleValidate(w)
    \/ SimpleCheck(w)
    \/ SimpleNewId(w)
    \/ SimpleStore(w)

NextSimple == list_images \/ \E w \in Workers : SimpleStep(w)

\* The development server: its request threads interleave.
SpecSimple == Init /\ [][NextSimple]_vars

NextPool == OtherGetConnTest \/ OtherGetConnUse \/ OtherPutConnection \/ Next

\* Uploads of the workers on a server whose other threads use the pool.
SpecPool == InitPool /\ [][NextPool]_vars

NextProvision == \E p \in Processes : Provision(p)

NextStart == NextProvision \/ Next

\* The processes start, and the server serves once it is up.
SpecStart == InitStart /\ [][NextStart]_vars

\* The start of the processes alone; a process that can take a step of its
\* start takes it.
SpecProvision ==
    /\ InitStart
    /\ [][NextProvision]_vars
    /\ \A p \in Processes : WF_vars(Provision(p))

(***************************************************************************)
(* Properties.                                                             *)
(***************************************************************************)
\* The records and the objects of a fingerprint; the objects no record has.
RecordsOf(md5_hash) == {row \in images : row.md5_hash = md5_hash}
ObjectsOf(md5_hash) == {k \in DOMAIN bucket : k[2] = md5_hash}
Orphans(md5_hash) ==
    {k \in ObjectsOf(md5_hash) : \A row \in images : row.s3_key # k}
Uncommitted == UNION {pending[w] : w \in Workers}

\* C1: a request answered 409 (duplicate) has made no object write and no
\* record insert, and no request has written an object while it stands at
\* or before the existence check.
C1_DuplicateWritesNothing ==
    /\ response.status = 409 => response.puts = 0 /\ response.inserts = 0
    /\ \A w \in Workers :
        pc[w] \in {"request", "image", "metadata", "info", "check"}
            => req[w].puts = 0 /\ req[w].inserts = 0

C1_Witness ==
    /\ response.status = 409
    /\ RecordsOf(response.md5_hash) # {}

\* C2: with requests served one after the other, a request whose content has
\* the fingerprint of a record made by an earlier request, and whose
\* existence check did not fail, is answered 409 with that record's id,
\* s3_key, title and description; it writes and inserts nothing, the record
\* is the only one of the fingerprint, and the record's object is the only
\* object of the fingerprint unless an upload that failed left an orphan.
C2_SequentialIdempotence ==
    \A row \in images :
        ( /\ response.md5_hash = row.md5_hash
          /\ row.id < response.seq
          /\ response.exc.at \notin {"check getconn", "select"} )
        => /\ response.status = 409
           /\ response.body = [ id |-> row.id, s3_key |-> row.s3_key,
                                title |-> row.title,
                                description |-> row.description ]
           /\ response.puts = 0
           /\ response.inserts = 0
           /\ RecordsOf(row.md5_hash) = {row}
           /\ row.s3_key \in ObjectsOf(row.md5_hash)
           /\ Orphans(row.md5_hash) = {} => ObjectsOf(row.md5_hash) = {row.s3_key}

\* The second upload has the bytes of the first and another title.
C2_Witness ==
    /\ ~concurrent
    /\ response.status = 409
    /\ response.seq = 2
    /\ response.metadata.kind = "object"
    /\ response.metadata.obj.title # response.body.title

\* C3: every record, committed or not, has an object in the bucket under its
\* s3_key, and a request answered 201 has left both its record and its
\* object.
C3_WriteBeforeRecord ==
    /\ \A row \in images \cup Uncommitted : row.s3_key \in DOMAIN bucket
    /\ response.status = 201 =>
        \E row \in images :
            /\ row.id = response.seq
            /\ row.s3_key = response.s3_key
            /\ row.s3_key \in DOMAIN bucket

\* A success after a request that failed behind its object write.
C3_Witness ==
    /\ response.status = 201
    /\ \E k \in DOMAIN bucket : \A row \in images : row.s3_key # k

\* C4: the table holds at most one record for each fingerprint.
C4_OneRecordPerFingerprint ==
    \A r1 \in images, r2 \in images : r1.md5_hash = r2.md5_hash => r1 = r2

\* Two requests with the same bytes both passed the existence check, and the
\* second INSERT met the constraint.
C4_Witness ==
    /\ response.exc.type = "UniqueViolation"
    /\ Cardinality(RecordsOf(response.md5_hash)) = 1

\* C5: the request whose INSERT fails on the uniqueness constraint is
\* answered 409 (duplicate), not 500.
C5_BelatedConflict ==
    response.exc.type = "UniqueViolation" => response.status = 409

\* C6: a request answered 400 has made no object write and no record insert.
C6_RejectedHasNoSideEffect ==
    response.status = 400 =>
        /\ response.puts = 0
        /\ response.inserts = 0
        /\ response.s3_key = <<>>

\* Non-image bytes under an allowed name, with objects already stored.
C6_Witness ==
    /\ response.status = 400
    /\ response.error = "Invalid image file"
    /\ DOMAIN bucket # {}

\* C7: a request whose metadata is not a JSON object (text that is not JSON,
\* a number, null, a string, an array) is answered 400 and has written no
\* object.
C7_MalformedMetadataRejected ==
    response.metadata.kind \in {"text", "number", "null", "string", "array"}
        => response.status = 400 /\ response.puts = 0

\* C8: every record has a non-empty title and a non-empty description.
C8_TitleAndDescriptionNonEmpty ==
    \A row \in images :
        /\ row.title # None /\ row.title # ""
        /\ row.description # None /\ row.description # ""

\* C9: a request whose object write failed is answered 500 with the store's
\* error logged, has made no insert and has no record; no request goes on
\* after a failed object write.
C9_UploadFailureIsFatal ==
    /\ response.exc.at = "upload_fileobj" =>
        /\ response.status = 500
        /\ response.exc.type \in {"NoCredentialsError", "ClientError"}
        /\ response.inserts = 0
        /\ \A row \in images \cup Uncommitted : row.id # response.seq
    /\ \A w \in Workers : req[w].exc.at # "upload_fileobj"

C9_Witness ==
    /\ response.exc.at = "upload_fileobj"
    /\ response.exc.type = "NoCredentialsError"
    /\ response.puts = 1

\* C10: a request whose insert failed at execute, fetchone or commit,
\* whether or not the rollback then succeeded, is
\* answered 500, has no record, committed or not, and its object is still in
\* the bucket.
C10_InsertFailureRollsBack ==
    response.exc.at \in {"execute", "fetchone", "commit", "rollback"} =>
        /\ response.status = 500
        /\ \A row \in images \cup Uncommitted : row.id # response.seq
        /\ response.puts = 1
        /\ response.s3_key \in DOMAIN bucket

\* The commit failed and the object is an orphan.
C10_Witness ==
    /\ response.exc.at = "commit"
    /\ response.s3_key \in Orphans(response.md5_hash)

\* C11: with requests served one after the other, a request writes an
\* object only when no object of its fingerprint is stored yet: a retry of
\* content that is already in the bucket is stopped by the existence check.
C11_RetryWritesNothingNew ==
    [][\A w \in Workers :
        (pc[w] = "upload" /\ pc'[w] # "upload")
            => ObjectsOf(req[w].md5_hash) = {}]_vars

\* C12: when the backend does not fail, so that a create call for a bucket
\* that a peer has made is answered "already exists", every process ends its
\* start READY and stays so, and the bucket is there.
C12_ProvisioningConverges ==
    ~mayFail =>
        <>[](/\ \A p \in Processes : start[p].pc = "READY"
             /\ buckets = {MINIO_BUCKET_NAME})

\* A process has lost the race: its create call was answered "already
\* exists".
C12_Witness ==
    /\ ~mayFail
    /\ \E p \in Processes :
        /\ start[p].pc = "except"
        /\ AlreadyExists(start[p].error_code)
        /\ \E q \in Processes \ {p} : start[q].pc = "READY"

\* C13: as long as the server's start has not ended READY, and for ever if
\* it ended FAILED, no request has arrived at a worker, none is in the
\* pipeline and none was answered.
C13_FailedStartNeverServes ==
    start["server"].pc # "READY" =>
        /\ nUploads = 0
        /\ \A w \in Workers : pc[w] = "idle"
        /\ response = NoRequest

\* The server's start failed while the peer is up.
C13_Witness ==
    /\ start["server"].pc = "FAILED"
    /\ start["peer"].pc = "READY"

\* C14: a worker holds a connection only between the INSERT and the commit
\* of save_image_metadata; when no worker stands there, on whatever path the
\* units of work ended, no connection is checked out.
C14_PoolDiscipline ==
    /\ \A w \in Workers : conn[w] => pc[w] = "commit"
    /\ (\A w \in Workers : pc[w] # "commit") => CheckedOut = 0

\* The insert failed, the rollback failed too, and the pool has it back.
C14_Witness ==
    /\ response.exc.at = "rollback"
    /\ response.checks = 1
    /\ CheckedOut = 0

\* C15: a request whose URL generation failed is answered 201 with the saved
\* record and no URL; its record and its object are in place.
C15_UrlIsBestEffort ==
    response.exc.at = "generate_presigned_url" =>
        /\ response.status = 201
        /\ \E row \in images :
            /\ row.id = response.seq
            /\ row.s3_key \in DOMAIN bucket
            /\ response.body = [data |-> SavedMetadata(row), download_url |-> None]

C15_Witness ==
    /\ response.exc.at = "generate_presigned_url"
    /\ response.puts = 1
    /\ response.inserts = 1

\* C16: whatever the annotator does (no key, failure, empty answer, text),
\* the request goes on from the annotation step to the object write; nothing
\* is answered at that step and nothing but the annotation and the read
\* position changes, and the annotation is a text or None.
C16_AnnotationIsBestEffort ==
    [][\A w \in Workers :
        (pc[w] = "gemini" /\ pc'[w] # "gemini") =>
            /\ pc'[w] = "upload"
            /\ response' = response
            /\ req'[w].gemini_analysis \in {None, "caption"}
            /\ req'[w] = [req[w] EXCEPT
                            !.gemini_analysis = req'[w].gemini_analysis,
                            !.pos = 0]]_vars

\* A request without annotation went through to the record.
C16_Witness ==
    /\ response.status = 201
    /\ \E row \in images : row.id = response.seq /\ row.gemini_analysis = None

\* C17: a request whose X-API-Key is missing, empty or wrong is answered 401
\* and has validated, fingerprinted, queried and written nothing; no request
\* is in the pipeline with such a key.
C17_UnauthenticatedNeverRuns ==
    /\ (response.seq # 0 /\ response.api_key # API_KEY) =>
        /\ response.status = 401
        /\ response.metadata = NoMetadata
        /\ response.md5_hash = <<>>
        /\ response.checks = 0
        /\ response.puts = 0
        /\ response.inserts = 0
    /\ \A w \in Workers : pc[w] # "idle" => req[w].api_key = API_KEY

C17_Witness ==
    /\ response.status = 401
    /\ response.api_key = "invalid-key"
    /\ images # {}

\* C18: a request that validate_image has looked at, whatever the verdict,
\* has its stream at the start when validate_image returns.
C18_ReadPositionRestored ==
    /\ response.error = "Invalid image file" => response.pos = 0
    /\ \A w \in Workers : pc[w] = "metadata" => req[w].pos = 0

\* C19: a request whose metadata object lacks title or description is
\* answered 400 without a fingerprint taken and without a query of the table.
C19_MissingFieldBeforeFingerprint ==
    ( /\ response.metadata.kind = "object"
      /\ ~({"title", "description"} \subseteq response.metadata.has) )
    => /\ response.status = 400
       /\ response.error = "Missing required metadata"
       /\ response.md5_hash = <<>>
       /\ response.checks = 0

\* The description is left out.
C19_Witness ==
    /\ response.metadata.kind = "object"
    /\ response.metadata.has = {"title"}
    /\ response.status = 400

\* C20: a request makes at most one object write and at most one insert.
C20_NoInternalRetry ==
    /\ response.puts <= 1 /\ response.inserts <= 1
    /\ \A w \in Workers : req[w].puts <= 1 /\ req[w].inserts <= 1

\* Both calls were made once and the request failed.
C20_Witness ==
    /\ response.status = 500
    /\ response.puts = 1
    /\ response.inserts = 1

\* C26: create_bucket is called only straight after head_bucket answered 404.
\* A head_bucket step makes no bucket; it ends READY only with the bucket
\* there, goes on to create_bucket only with the bucket missing, and after
\* any other error it ends FAILED with no create_bucket call and no new pass.
C26_CreateOnlyAfterNotFound ==
    [][\A p \in Processes :
        /\ (start'[p].pc = "create" /\ start[p].pc # "create")
           => /\ start[p].pc = "head"
              /\ start'[p].error_code = "404"
              /\ MINIO_BUCKET_NAME \notin buckets
        /\ (start[p].pc = "head" /\ start'[p] # start[p])
           => /\ buckets' = buckets
              /\ \/ start'[p].pc = "READY" /\ MINIO_BUCKET_NAME \in buckets
                 \/ start'[p].pc = "create" /\ MINIO_BUCKET_NAME \notin buckets
                 \/ /\ start'[p].pc = "FAILED"
                    /\ start'[p].error_code \in {"403", "EndpointConnectionError"}
                    /\ start'[p].creates = start[p].creates
                    /\ start'[p].attempt = start[p].attempt]_vars

\* head_bucket was refused in the first pass: no bucket and no create_bucket.
C26_Witness ==
    \E p \in Processes :
        /\ start[p].pc = "FAILED"
        /\ start[p].error_code = "403"
        /\ start[p].creates = 0
        /\ buckets = {}

\* C27: a start calls create_bucket at most 5 times and sleeps 1, 2, 4 and 8
\* seconds after the first four failures; after the fifth there is no sleep
\* and the start ends FAILED with the error of that call.
C27_CappedBackoff ==
    \A p \in Processes :
        LET s == start[p]
        IN  /\ s.creates <= 5
            /\ Len(s.slept) <= 4
            /\ \A i \in 1..Len(s.slept) : s.slept[i] = 2 ^ (i - 1)
            /\ s.pc \in {"head", "create"} => Len(s.slept) = s.creates
            /\ s.pc = "except" => Len(s.slept) = s.creates - 1
            /\ (s.pc = "FAILED" /\ s.error_code = "ServiceUnavailable")
               => s.creates = 5 /\ s.slept = <<1, 2, 4, 8>>

\* The fifth create_bucket call failed.
C27_Witness ==
    \E p \in Processes :
        /\ start[p].pc = "FAILED"
        /\ start[p].creates = 5
        /\ start[p].slept = <<1, 2, 4, 8>>
        /\ start[p].error_code = "ServiceUnavailable"

\* C28: after a failed create_bucket the next call to the backend is
\* create_bucket again, so head_bucket is called before the first create only,
\* and a start that called create_bucket ends FAILED only after max_retries
\* failed calls.
C28_RetryGoesBackToCreating ==
    \A p \in Processes :
        /\ start[p].pc = "head" => start[p].creates = 0
        /\ (start[p].pc = "FAILED" /\ start[p].creates > 0)
           => start[p].creates = max_retries

\* C30: a start ends READY only with the bucket there: seen by head_bucket,
\* made by create_bucket, or reported by create_bucket as already existing.
\* The server that takes requests has its bucket.
C30_ReadyHasBucket ==
    /\ \A p \in Processes : start[p].pc = "READY" => MINIO_BUCKET_NAME \in buckets
    /\ Serving => MINIO_BUCKET_NAME \in buckets

\* One process used up its passes with the bucket missing and failed; the
\* other made the bucket afterwards.
C30_Witness ==
    \E p, q \in Processes :
        /\ start[p].pc = "READY"
        /\ start[q].pc = "FAILED"
        /\ start[q].creates = max_retries
        /\ MINIO_BUCKET_NAME \in buckets

\* C21: no step changes the bytes stored under a key that is in the bucket:
\* a write to an existing key writes the content that is there.
C21_KeyContentImmutable ==
    [][\A k \in DOMAIN bucket :
        k \in DOMAIN bucket' => bucket'[k].body = bucket[k].body]_vars

\* A request wrote its object and failed; a second request has written the
\* same key again.
C21_Witness ==
    \E w \in Workers :
        /\ pc[w] = "save"
        /\ req[w].puts = 1
        /\ response.status = 500
        /\ response.puts = 1
        /\ response.s3_key = req[w].s3_key

\* C22: no step removes or changes a record of the table, and no step removes
\* a key from the bucket.
C22_RecordsAndKeysOnlyGrow ==
    [][images \subseteq images' /\ DOMAIN bucket \subseteq DOMAIN bucket']_vars

\* A duplicate was sent with another title and answered 409; the record has
\* the title it was stored with.
C22_Witness ==
    /\ response.status = 409
    /\ response.metadata.kind = "object"
    /\ response.metadata.obj.title = ""
    /\ \E row \in images : row.id = response.body.id /\ row.title = "T"

\* C23: with no backend failing, a valid request whose content no other
\* request has stored is answered 201 and has its own record and its own
\* object; every record has its own key, and the object under that key holds
\* the content of the record.
C23_DistinctContentsDoNotInterfere ==
    ( /\ ~mayFail
      /\ response.metadata.kind = "object"
      /\ {"title", "description"} \subseteq response.metadata.has
      /\ RecordsOf(response.md5_hash) \subseteq {row \in images : row.id = response.seq} )
    => /\ response.status = 201
       /\ \E row \in images :
            /\ RecordsOf(response.md5_hash) = {row}
            /\ row.id = response.seq
            /\ row.s3_key = response.s3_key
       /\ \A row \in images :
            /\ row.s3_key \in DOMAIN bucket
            /\ calculate_md5(bucket[row.s3_key].body) = row.md5_hash
            /\ \A other \in images : other.s3_key = row.s3_key => other = row

\* The second request, with other content, has been answered 201 while the
\* first is between its insert and its commit.
C23_Witness ==
    /\ ~mayFail
    /\ response.status = 201
    /\ response.seq = 2
    /\ pc[1] = "commit"
    /\ req[1].md5_hash # response.md5_hash

\* C24: a request that failed in its object write or in its insert has left
\* a line at level ERROR that holds its fingerprint and its storage key.
C24_FailureLoggedWithContext ==
    response.exc.at \in {"upload_fileobj", "execute", "fetchone", "commit", "rollback"}
    => \E i \in 1..Len(response.log) :
        LET values == response.log[i].values
        IN  /\ {"md5_hash", "s3_key"} \subseteq DOMAIN values
            /\ values.md5_hash = response.md5_hash
            /\ values.s3_key = response.s3_key

\* C29: the check of title and description comes before the check of the
\* image: a request whose image is being validated, and a request rejected
\* for its image, has metadata that was found to hold both fields.
C29_InputBeforeContent ==
    /\ \A w \in Workers :
        pc[w] = "image"
            => /\ req[w].metadata.kind = "object"
               /\ {"title", "description"} \subseteq req[w].metadata.has
    /\ response.error = "Invalid image file"
        => /\ response.metadata.kind = "object"
           /\ {"title", "description"} \subseteq response.metadata.has

\* C25: a health check is answered 200 "healthy" whatever its API key, and
\* the step that answers it leaves the table, the open transactions and the
\* bucket as they are.
C25_HealthChangesNothing ==
    [][(response'.path = "/health" /\ response' # response)
        => /\ response'.status = 200
           /\ response'.body.status = "healthy"
           /\ UNCHANGED <<images, pending, bucket>>]_vars

\* A health check with no API key, after an upload was stored and while
\* another is between its object write and its insert.
C25_Witness ==
    /\ response.path = "/health"
    /\ response.api_key = None
    /\ response.status = 200
    /\ images # {}
    /\ \E w \in Workers : pc[w] = "save"

\* C31: a request about to write its object has its stream at the start,
\* whatever the annotator did; every object holds the bytes its key's
\* fingerprint was taken from, and the object of a record has the length the
\* record gives as filesize.
C31_ObjectIsWhatWasFingerprinted ==
    /\ \A w \in Workers : pc[w] = "upload" => req[w].pos = 0
    /\ \A k \in DOMAIN bucket : calculate_md5(bucket[k].body) = k[2]
    /\ \A row \in images :
        /\ row.s3_key \in DOMAIN bucket
        /\ Len(bucket[row.s3_key].body) = row.filesize

\* The annotator read the stream and answered; the object and the record of
\* the three bytes are stored.
C31_Witness ==
    \E row \in images :
        /\ row.gemini_analysis = "caption"
        /\ row.filesize = 3
        /\ row.s3_key \in DOMAIN bucket
        /\ bucket[row.s3_key].body = <<9, 2, 2>>

\* C32: at most 20 connections are checked out of the pool; a worker holds
\* a connection only in its insert, between execute and commit; a request
\* that got no connection is answered 500, and when that was at the
\* existence check it has written no object.
C32_PoolBounded ==
    /\ CheckedOut <= 20
    /\ \A w \in Workers : conn[w] => pc[w] = "commit"
    /\ response.exc.type = "PoolError"
        => /\ response.status = 500
           /\ response.exc.at = "check getconn" => response.puts = 0

\* C33: in simple_app.py the stored records have ids that differ, each is
\* stored under its own fingerprint, every record a 201 response carried is
\* stored as it was returned, and the count list_images reports, the size
\* of image_storage, is the number of 201 responses.
C33_SimpleStoreConsistent ==
    LET image_storage == simple.image_storage
    IN  /\ \A h1, h2 \in DOMAIN image_storage :
            image_storage[h1].id = image_storage[h2].id => h1 = h2
        /\ \A h \in DOMAIN image_storage : image_storage[h].md5_hash = h
        /\ \A saved_metadata \in simple.returned :
            /\ saved_metadata.md5_hash \in DOMAIN image_storage
            /\ image_storage[saved_metadata.md5_hash] = saved_metadata
        /\ Cardinality(DOMAIN image_storage) = simple.created

=============================================================================
